---- MODULE Spec2Model ----
(***************************************************************************)
(* The record / play-back / play-library session of the ES8311 full-duplex *)
(* example.  Two variants of loop() exist in the repository:               *)
(*   "wav"  src/unnamed/part_000  (5 s, WAV encoder, AudioPlayer playback)  *)
(*   "pcm"  src/src/main.cpp      (10 s, raw PCM file, MP3 library asset)   *)
(* The variant is fixed at Init; every action is one step of loop().       *)
(***************************************************************************)
EXTENDS Integers, Sequences, FiniteSets, TLC

VARIABLES
    variant,          \* "wav" | "pcm": which loop() is running
    pc,               \* position inside loop(); "idle" = between two ticks
    recordingDone,    \* static bool recordingDone
    playRecDone,      \* static bool playRecDone (wav) / playbackDone (pcm)
    playMusicDone,    \* static bool playMusicDone (wav only; pcm has no such flag)
    samples_recorded, \* int samples_recorded, local to the recording block
    bytes,            \* size_t bytes / bytesRead of the read being processed
    fileLen,          \* PCM data bytes stored at RECORD_FILE_PATH
    openFiles,        \* File objects currently open: "recFile", "playFile"
    playPos,          \* read position of playFile (pcm)
    shortReads,       \* short playFile.read() results so far in this playback
    playerPath,       \* path selected in the AudioPlayer: "music" | "rec"
    playerActive,     \* AudioPlayer active flag (play() / end())
    playerSrcOk,      \* the player's selected source could be opened
    playerRemain,     \* chunks the player's source still holds
    bps,              \* bytes per sample handed to the aligner
    aligned,          \* result of the aligner harness (AlignSpec)
    entered,          \* history: how often each stage was entered (saturating)
    order,            \* history: stages in the order of their first completion
    tickSteps,        \* history: stages started during the current tick
    tickOps,          \* history: device operations of the current tick
    tickAbort,        \* history: open failure that ended the current tick
    unavail,          \* history: playback stages whose latest source open failed
    delivered,        \* bytes the transport accepted in the current pcm playback
    shortWrites,      \* short i2s write results so far in this playback
    paEnabled,        \* level of the amplifier enable pin I2S_PA_EN
    bufZero,          \* WVA_RECORDBuf holds only zero bytes
    fileKind,         \* what RECORD_FILE_PATH holds: "none" | "capture" | "silence" | "stale"
    opLog,            \* history: sink and encoder operations of the latest
                      \* recording step or flush call (repeated writes once)
    scriptIn,         \* read lengths still to be returned (ScriptSpec)
    readHist,         \* read lengths returned so far (ScriptSpec)
    flushRet          \* where the running flush was called from

vars == <<variant, pc, recordingDone, playRecDone, playMusicDone,
          samples_recorded, bytes, fileLen, openFiles, playPos, shortReads,
          playerPath, playerActive, playerSrcOk, playerRemain, bps, aligned,
          entered, order, tickSteps, tickOps, tickAbort, unavail,
          delivered, shortWrites, paEnabled, bufZero, fileKind, opLog,
          scriptIn, readHist, flushRet>>

----------------------------------------------------------------------------
(* Program constants *)

RECORD_SECONDS_WAV == 5
RECORD_SECONDS_PCM == 10
SAMPLE_RATE == 16000
BYTES_PER_SAMPLE == 4
WVA_RECORD_BUFFER_LENGTH == 512
PCM_BUFFER_LENGTH == 512
\* for (int o = 0; o < 1; o++) in flushI2SWithSilentWAV
FLUSH_BUFFERS == 1

(* Model bounds *)

\* The capture target is checked with the sample clock divided by RateScale:
\* the loop reads the target only through the comparison of its guard.
RateScale == 1000
\* Chunks an AudioPlayer source can hold.
MaxChunks == 2
\* Saturation of the stage-entry counters.
MaxEnter == 2
\* Short playFile.read() results per playback.
MaxShortReads == 1
\* Short i2s_out_stream->write() results per playback.
MaxShortWrites == 1
\* Inputs of the aligner harness.
MaxAlignLen == 520
MaxAlignBps == 8
\* Reads in one sequence of the capture-loop harness.
MaxScriptLen == 4

Variants == {"wav", "pcm"}
Stages == {"Recording", "PlayingOwnRecording", "PlayingLibraryAsset"}
StageSeq == <<"Recording", "PlayingOwnRecording", "PlayingLibraryAsset">>

Min(a, b) == IF a < b THEN a ELSE b

RECORD_SECONDS(v) == IF v = "wav" THEN RECORD_SECONDS_WAV ELSE RECORD_SECONDS_PCM

TOTAL_SAMPLES_wavLength(v) == RECORD_SECONDS_WAV * SAMPLE_RATE

\* #define TOTAL_SAMPLES RECORD_SECONDS * SAMPLE_RATE
TOTAL_SAMPLES(v) == RECORD_SECONDS(v) * SAMPLE_RATE

\* The target the model's capture loop compares against.
Target(v) == TOTAL_SAMPLES(v) \div RateScale

\* sizeof(WVA_RECORDBuf) / sizeof(buf)
BufSize(v) == IF v = "wav" THEN WVA_RECORD_BUFFER_LENGTH ELSE PCM_BUFFER_LENGTH

----------------------------------------------------------------------------
(* Pure helpers *)

align_identity(L, B) == L

align_zero(L, B) == 0

align_roundUp(L, B) == ((L + B - 1) \div B) * B

\* size_t aligned = (bytes / BYTES_PER_SAMPLE) * BYTES_PER_SAMPLE;
align(L, B) == (L \div B) * B

LoopCond_le(s, v) == s <= Target(v)

\* while (samples_recorded < TOTAL_SAMPLES)
LoopCond(s, v) == s < Target(v)

TooShort_always(n) == TRUE

TooShort_emptyOnly(n) == n < 1

\* if (bytes < BYTES_PER_SAMPLE) continue;
TooShort(n) == n < BYTES_PER_SAMPLE

SamplesAdded_bytes(a) == a

\* samples_recorded += aligned / BYTES_PER_SAMPLE;
SamplesAdded(a) == a \div BYTES_PER_SAMPLE

FileAvailable_fullOnly(pos, len) == IF len - pos >= PCM_BUFFER_LENGTH THEN len - pos ELSE 0

\* playFile.available()
FileAvailable(pos, len) == len - pos

\* player->copy() returns non-zero while the active player still has data
PlayerHasData(active, remain) == active /\ remain > 0

\* Results playFile.read(buf, sizeof(buf)) can give with rem bytes left:
\* the full chunk, or (a bounded number of times) fewer bytes.
FileReadLens(rem, sr) ==
    LET full == Min(rem, PCM_BUFFER_LENGTH)
    IN  {full} \cup (IF sr < MaxShortReads THEN {n \in {0, 2, 6} : n < full} ELSE {})

\* Results i2s_out_stream->write(buf, a) can give: all a bytes consumed, or (a
\* bounded number of times) one sample fewer.
WriteLens(a, sw) ==
    {a} \cup (IF sw < MaxShortWrites /\ a >= BYTES_PER_SAMPLE
               THEN {a - BYTES_PER_SAMPLE}
               ELSE {})

AddStep(seq, s) == Append(seq, s)

PlayerAfterEnd_stillActive(active) == active

\* player->end(): the player is no longer active.
PlayerAfterEnd(active) == FALSE

\* Sink and encoder calls from the open to the start of the capture loop.
RecOpenOps(v) ==
    IF v = "wav" THEN <<"sd_open", "enc_begin", "enc_setOutput">> ELSE <<"sd_open">>

\* encoder.write(WVA_RECORDBuf, aligned) / recFile.write(buf, aligned)
RecWriteOp(v) == IF v = "wav" THEN "enc_write" ELSE "file_write"

RecFinishOps_closeFirst(v) ==
    IF v = "wav" THEN <<"file_close", "enc_end", "set_recordingDone">>
                 ELSE <<"file_close", "set_recordingDone">>

\* encoder.end(); WVA_RECORDFile.close(); recordingDone = true;
RecFinishOps(v) ==
    IF v = "wav" THEN <<"enc_end", "file_close", "set_recordingDone">>
                 ELSE <<"file_close", "set_recordingDone">>

InLog(log, op) == \E i \in 1..Len(log) : log[i] = op

\* The log keeps one entry for a run of equal operations.
LogOp(log, op) ==
    IF Len(log) > 0 /\ log[Len(log)] = op THEN log ELSE Append(log, op)
Enter(e, s) == [e EXCEPT ![s] = Min(e[s] + 1, MaxEnter)]
Complete(o, s) == IF \E i \in 1..Len(o) : o[i] = s THEN o ELSE Append(o, s)

----------------------------------------------------------------------------
(* State after setup() *)

Init ==
    /\ variant \in Variants
    /\ pc = "idle"
    /\ recordingDone = FALSE
    /\ playRecDone = FALSE
    /\ playMusicDone = FALSE
    /\ samples_recorded = 0
    /\ bytes = 0
    /\ fileLen = 0
    /\ openFiles = {}
    /\ playPos = 0
    /\ shortReads = 0
    \* setup(): player->begin(0, 0) selects the library asset without playing
    \* it (pcm: followed by setPath("/music/a1.mp3")); the asset may be missing.
    /\ playerPath = "music"
    /\ playerActive = FALSE
    /\ playerSrcOk \in BOOLEAN
    /\ playerRemain \in (IF playerSrcOk THEN 1..MaxChunks ELSE {0})
    /\ bps = BYTES_PER_SAMPLE
    /\ aligned = 0
    /\ entered = [s \in Stages |-> 0]
    /\ order = <<>>
    /\ tickSteps = <<>>
    /\ tickOps = {}
    /\ tickAbort = "none"
    /\ unavail = IF variant = "pcm" /\ ~playerSrcOk THEN {"PlayingLibraryAsset"} ELSE {}
    /\ delivered = 0
    /\ shortWrites = 0
    \* setup(): digitalWrite(I2S_PA_EN, HIGH)
    /\ paEnabled = TRUE
    /\ bufZero = TRUE
    /\ fileKind = "none"
    /\ opLog = <<>>
    /\ scriptIn = <<>>
    /\ readHist = <<>>
    /\ flushRet = "idle"

\* Variables no action of loop() ever writes.
Fixed == UNCHANGED <<variant, bps, aligned, paEnabled, scriptIn, readHist, flushRet>>

----------------------------------------------------------------------------
(* loop(): entry *)

\* The framework calls loop() again.
LoopEnter ==
    /\ pc = "idle"
    /\ pc' = "rec_check"
    /\ tickSteps' = <<>>
    /\ tickOps' = {}
    /\ tickAbort' = "none"
    /\ Fixed
    /\ UNCHANGED <<recordingDone, playRecDone, playMusicDone, samples_recorded,
                   bytes, fileLen, openFiles, playPos, shortReads, playerPath,
                   playerActive, playerSrcOk, playerRemain, entered, order, unavail>>
    /\ UNCHANGED <<delivered, shortWrites, bufZero, fileKind, opLog>>

----------------------------------------------------------------------------
(* Stage 1: recording *)

\* if (!recordingDone) is false: the block is skipped.
RecSkip ==
    /\ pc = "rec_check"
    /\ recordingDone
    /\ pc' = "play_check"
    /\ Fixed
    /\ UNCHANGED <<recordingDone, playRecDone, playMusicDone, samples_recorded,
                   bytes, fileLen, openFiles, playPos, shortReads, playerPath,
                   playerActive, playerSrcOk, playerRemain, entered, order,
                   tickSteps, tickOps, tickAbort, unavail>>
    /\ UNCHANGED <<delivered, shortWrites, bufZero, fileKind, opLog>>

\* Device operations made before the sink is opened: wav calls player->end().
PreOpenOps(v) == IF v = "wav" THEN {"player_end", "sd_open"} ELSE {"sd_open"}

RecOpenFailNext_fallthrough == "play_check"

\* if (!recFile) { ...; return; }
RecOpenFailNext == "idle"

\* SD.open(RECORD_FILE_PATH, FILE_WRITE) fails.
RecOpenFail ==
    /\ pc = "rec_check"
    /\ ~recordingDone
    /\ playerActive' = IF variant = "wav" THEN PlayerAfterEnd(playerActive)
                                           ELSE playerActive
    /\ tickOps' = tickOps \cup PreOpenOps(variant)
    /\ tickAbort' = "sink"
    /\ pc' = RecOpenFailNext
    /\ Fixed
    /\ UNCHANGED <<recordingDone, playRecDone, playMusicDone, samples_recorded,
                   bytes, fileLen, openFiles, playPos, shortReads, playerPath,
                   playerSrcOk, playerRemain, entered, order, tickSteps, unavail>>
    /\ UNCHANGED <<delivered, shortWrites, bufZero, fileKind, opLog>>

\* SD.open succeeds (the file is created or truncated); wav: encoder.begin(info),
\* encoder.setOutput(recFile).  int samples_recorded = 0; the capture loop is
\* about to start.
RecOpenOk ==
    /\ pc = "rec_check"
    /\ ~recordingDone
    /\ playerActive' = IF variant = "wav" THEN PlayerAfterEnd(playerActive)
                                           ELSE playerActive
    /\ openFiles' = openFiles \cup {"recFile"}
    /\ fileLen' = 0
    /\ samples_recorded' = 0
    /\ entered' = Enter(entered, "Recording")
    /\ tickSteps' = AddStep(tickSteps, "Recording")
    /\ tickOps' = tickOps \cup PreOpenOps(variant)
                    \cup (IF variant = "wav" THEN {"enc_begin"} ELSE {})
    /\ pc' = "rec_loop"
    /\ Fixed
    /\ UNCHANGED <<recordingDone, playRecDone, playMusicDone, bytes, playPos,
                   shortReads, playerPath, playerSrcOk, playerRemain, order,
                   tickAbort, unavail>>
    /\ fileKind' = "capture"
    /\ opLog' = RecOpenOps(variant)
    /\ UNCHANGED <<delivered, shortWrites, bufZero>>

\* The loop guard holds and i2s_out_stream->readBytes(buf, sizeof(buf)) returns b.
RecReadOf(b) ==
    /\ pc = "rec_loop"
    /\ LoopCond(samples_recorded, variant)
    /\ bytes' = b
    \* wav reads into the global WVA_RECORDBuf, pcm into a local buffer
    /\ bufZero' = IF variant = "wav" /\ b > 0 THEN FALSE ELSE bufZero
    /\ tickOps' = tickOps \cup {"i2s_read"}
    /\ pc' = "rec_got"
    /\ UNCHANGED <<variant, bps, aligned, paEnabled, flushRet>>
    /\ UNCHANGED <<recordingDone, playRecDone, playMusicDone, samples_recorded,
                   fileLen, openFiles, playPos, shortReads, playerPath,
                   playerActive, playerSrcOk, playerRemain, entered, order,
                   tickSteps, tickAbort, unavail>>
    /\ UNCHANGED <<delivered, shortWrites, fileKind, opLog>>

\* The transport may return any length 0..sizeof(buf).
RecRead ==
    /\ pc = "rec_loop"
    /\ \E b \in 0..BufSize(variant) : RecReadOf(b)
    /\ UNCHANGED <<scriptIn, readHist>>

\* The rest of one iteration: a read shorter than one sample is dropped
\* (continue); otherwise the aligned prefix goes to encoder.write / recFile.write
\* and the sample counter advances.  The sink takes every byte it is given.
RecProcess ==
    /\ pc = "rec_got"
    /\ IF TooShort(bytes)
         THEN UNCHANGED <<fileLen, samples_recorded, tickOps, opLog>>
         ELSE LET a == align(bytes, bps)
              IN  /\ fileLen' = fileLen + a
                  /\ samples_recorded' = samples_recorded + SamplesAdded(a)
                  /\ tickOps' = tickOps \cup {"sink_write"}
                  /\ opLog' = LogOp(opLog, RecWriteOp(variant))
    /\ bytes' = 0
    /\ pc' = "rec_loop"
    /\ Fixed
    /\ UNCHANGED <<recordingDone, playRecDone, playMusicDone, openFiles, playPos,
                   shortReads, playerPath, playerActive, playerSrcOk,
                   playerRemain, entered, order, tickSteps, tickAbort, unavail>>
    /\ UNCHANGED <<delivered, shortWrites, bufZero, fileKind>>

\* Loop exit: (wav: encoder.end();) recFile.close(); recordingDone = true;
\* the block ends and samples_recorded goes out of scope.
RecFinish ==
    /\ pc = "rec_loop"
    /\ ~LoopCond(samples_recorded, variant)
    /\ openFiles' = openFiles \ {"recFile"}
    /\ recordingDone' = TRUE
    /\ samples_recorded' = 0
    /\ order' = Complete(order, "Recording")
    /\ tickOps' = tickOps \cup {"file_close"}
                    \cup (IF variant = "wav" THEN {"enc_end"} ELSE {})
    /\ pc' = "play_check"
    /\ Fixed
    /\ UNCHANGED <<playRecDone, playMusicDone, bytes, fileLen, playPos,
                   shortReads, playerPath, playerActive, playerSrcOk,
                   playerRemain, entered, tickSteps, tickAbort, unavail>>
    /\ opLog' = opLog \o RecFinishOps(variant)
    /\ UNCHANGED <<delivered, shortWrites, bufZero, fileKind>>

----------------------------------------------------------------------------
(* Stage 2: playing the own recording *)

\* if (recordingDone && !playRecDone) / if (recordingDone && !playbackDone)
PlayCond == recordingDone /\ ~playRecDone

PlaySkip ==
    /\ pc = "play_check"
    /\ ~PlayCond
    /\ pc' = "music_check"
    /\ Fixed
    /\ UNCHANGED <<recordingDone, playRecDone, playMusicDone, samples_recorded,
                   bytes, fileLen, openFiles, playPos, shortReads, playerPath,
                   playerActive, playerSrcOk, playerRemain, entered, order,
                   tickSteps, tickOps, tickAbort, unavail>>
    /\ UNCHANGED <<delivered, shortWrites, bufZero, fileKind, opLog>>

\* wav: player->setPath(RECORD_FILE_PATH); player->play();  The result of
\* setPath is not looked at: with the source missing the player holds no data.
PlayStartWav ==
    /\ pc = "play_check"
    /\ variant = "wav"
    /\ PlayCond
    /\ \E ok \in BOOLEAN :
         /\ playerSrcOk' = ok
         /\ playerRemain' \in (IF ok THEN 1..MaxChunks ELSE {0})
         /\ unavail' = IF ok THEN unavail \ {"PlayingOwnRecording"}
                             ELSE unavail \cup {"PlayingOwnRecording"}
    /\ playerPath' = "rec"
    /\ playerActive' = TRUE
    /\ entered' = Enter(entered, "PlayingOwnRecording")
    /\ tickSteps' = AddStep(tickSteps, "PlayingOwnRecording")
    /\ tickOps' = tickOps \cup {"player_setPath", "player_play"}
    /\ pc' = "play_loop"
    /\ Fixed
    /\ UNCHANGED <<recordingDone, playRecDone, playMusicDone, samples_recorded,
                   bytes, fileLen, openFiles, playPos, shortReads, order,
                   tickAbort>>
    /\ UNCHANGED <<delivered, shortWrites, bufZero, fileKind, opLog>>

\* wav: while (player->copy()) {} with data left: one chunk goes to the transport.
PlayCopy ==
    /\ pc = "play_loop"
    /\ variant = "wav"
    /\ PlayerHasData(playerActive, playerRemain)
    /\ playerRemain' = playerRemain - 1
    /\ tickOps' = tickOps \cup {"player_copy"}
    /\ Fixed
    /\ UNCHANGED <<pc, recordingDone, playRecDone, playMusicDone,
                   samples_recorded, bytes, fileLen, openFiles, playPos,
                   shortReads, playerPath, playerActive, playerSrcOk, entered,
                   order, tickSteps, tickAbort, unavail>>
    /\ UNCHANGED <<delivered, shortWrites, bufZero, fileKind, opLog>>

\* wav: copy() returns 0, the loop ends; playRecDone = true; delay(1000).
PlayDoneWav ==
    /\ pc = "play_loop"
    /\ variant = "wav"
    /\ ~PlayerHasData(playerActive, playerRemain)
    /\ playRecDone' = TRUE
    /\ order' = Complete(order, "PlayingOwnRecording")
    /\ tickOps' = tickOps \cup {"player_copy"}
    /\ pc' = "music_check"
    /\ Fixed
    /\ UNCHANGED <<recordingDone, playMusicDone, samples_recorded, bytes, fileLen,
                   openFiles, playPos, shortReads, playerPath, playerActive,
                   playerSrcOk, playerRemain, entered, tickSteps, tickAbort,
                   unavail>>
    /\ UNCHANGED <<delivered, shortWrites, bufZero, fileKind, opLog>>

\* if (!playFile) { ...; return; }
PlayOpenFailNext == "idle"

\* pcm: SD.open(RECORD_FILE_PATH, FILE_READ) fails.
PlayOpenFail ==
    /\ pc = "play_check"
    /\ variant = "pcm"
    /\ PlayCond
    /\ unavail' = unavail \cup {"PlayingOwnRecording"}
    /\ tickOps' = tickOps \cup {"sd_open"}
    /\ tickAbort' = "source"
    /\ pc' = PlayOpenFailNext
    /\ Fixed
    /\ UNCHANGED <<recordingDone, playRecDone, playMusicDone, samples_recorded,
                   bytes, fileLen, openFiles, playPos, shortReads, playerPath,
                   playerActive, playerSrcOk, playerRemain, entered, order,
                   tickSteps>>
    /\ UNCHANGED <<delivered, shortWrites, bufZero, fileKind, opLog>>

\* pcm: SD.open succeeds; the copy loop is about to start.
PlayOpenOk ==
    /\ pc = "play_check"
    /\ variant = "pcm"
    /\ PlayCond
    /\ openFiles' = openFiles \cup {"playFile"}
    /\ playPos' = 0
    /\ shortReads' = 0
    /\ unavail' = unavail \ {"PlayingOwnRecording"}
    /\ entered' = Enter(entered, "PlayingOwnRecording")
    /\ tickSteps' = AddStep(tickSteps, "PlayingOwnRecording")
    /\ tickOps' = tickOps \cup {"sd_open"}
    /\ pc' = "play_loop"
    /\ Fixed
    /\ UNCHANGED <<recordingDone, playRecDone, playMusicDone, samples_recorded,
                   bytes, fileLen, playerPath, playerActive, playerSrcOk,
                   playerRemain, order, tickAbort>>
    /\ delivered' = 0
    /\ shortWrites' = 0
    /\ UNCHANGED <<bufZero, fileKind, opLog>>

\* pcm: while (playFile.available()) { bytesRead = playFile.read(buf, sizeof(buf));
PlayFileRead ==
    /\ pc = "play_loop"
    /\ variant = "pcm"
    /\ FileAvailable(playPos, fileLen) > 0
    /\ \E n \in FileReadLens(fileLen - playPos, shortReads) :
         /\ bytes' = n
         /\ playPos' = playPos + n
         /\ shortReads' = IF n < Min(fileLen - playPos, PCM_BUFFER_LENGTH)
                            THEN shortReads + 1 ELSE shortReads
    /\ tickOps' = tickOps \cup {"file_read"}
    /\ pc' = "play_got"
    /\ Fixed
    /\ UNCHANGED <<recordingDone, playRecDone, playMusicDone, samples_recorded,
                   fileLen, openFiles, playerPath, playerActive, playerSrcOk,
                   playerRemain, entered, order, tickSteps, tickAbort, unavail>>
    /\ UNCHANGED <<delivered, shortWrites, bufZero, fileKind, opLog>>

\* pcm: the rest of one iteration: a read shorter than one sample is skipped,
\* otherwise i2s_out_stream->write(buf, aligned); the transport may consume
\* fewer bytes than offered and the result is not looked at.
PlayWrite ==
    /\ pc = "play_got"
    /\ IF TooShort(bytes)
         THEN UNCHANGED <<tickOps, delivered, shortWrites>>
         ELSE LET a == align(bytes, bps)
              IN  /\ tickOps' = tickOps \cup {"i2s_write"}
                  /\ \E w \in WriteLens(a, shortWrites) :
                        /\ delivered' = delivered + w
                        /\ shortWrites' = IF w < a THEN shortWrites + 1
                                                   ELSE shortWrites
    /\ bytes' = 0
    /\ pc' = "play_loop"
    /\ Fixed
    /\ UNCHANGED <<recordingDone, playRecDone, playMusicDone, samples_recorded,
                   fileLen, openFiles, playPos, shortReads, playerPath,
                   playerActive, playerSrcOk, playerRemain, entered, order,
                   tickSteps, tickAbort, unavail>>
    /\ UNCHANGED <<bufZero, fileKind, opLog>>

\* pcm: available() is 0: playFile.close(); playbackDone = true;
PlayDonePcm ==
    /\ pc = "play_loop"
    /\ variant = "pcm"
    /\ ~(FileAvailable(playPos, fileLen) > 0)
    /\ openFiles' = openFiles \ {"playFile"}
    /\ playRecDone' = TRUE
    /\ order' = Complete(order, "PlayingOwnRecording")
    /\ tickOps' = tickOps \cup {"file_close"}
    /\ pc' = "music_check"
    /\ Fixed
    /\ UNCHANGED <<recordingDone, playMusicDone, samples_recorded, bytes, fileLen,
                   playPos, shortReads, playerPath, playerActive, playerSrcOk,
                   playerRemain, entered, tickSteps, tickAbort, unavail>>
    /\ UNCHANGED <<delivered, shortWrites, bufZero, fileKind, opLog>>

----------------------------------------------------------------------------
(* Stage 3: playing the library asset *)

TickEnd_repeat == "rec_check"

\* The closing brace of loop(): control goes back to the framework.
TickEnd == "idle"

\* wav: if (!playMusicDone); pcm: the calls are not guarded at all.
MusicCond(v, done) == IF v = "wav" THEN ~done ELSE TRUE

\* wav: the block is skipped; delay(2000); loop() returns.
MusicSkip ==
    /\ pc = "music_check"
    /\ ~MusicCond(variant, playMusicDone)
    /\ pc' = TickEnd
    /\ Fixed
    /\ UNCHANGED <<recordingDone, playRecDone, playMusicDone, samples_recorded,
                   bytes, fileLen, openFiles, playPos, shortReads, playerPath,
                   playerActive, playerSrcOk, playerRemain, entered, order,
                   tickSteps, tickOps, tickAbort, unavail>>
    /\ UNCHANGED <<delivered, shortWrites, bufZero, fileKind, opLog>>

\* wav: player->setPath("/music/test.wav"); player->play();
\* pcm: player->play(); on the source selected in setup().
MusicStart ==
    /\ pc = "music_check"
    /\ MusicCond(variant, playMusicDone)
    /\ IF variant = "wav"
         THEN /\ \E ok \in BOOLEAN :
                   /\ playerSrcOk' = ok
                   /\ playerRemain' \in (IF ok THEN 1..MaxChunks ELSE {0})
                   /\ unavail' = IF ok THEN unavail \ {"PlayingLibraryAsset"}
                                       ELSE unavail \cup {"PlayingLibraryAsset"}
              /\ playerPath' = "music"
              /\ tickOps' = tickOps \cup {"player_setPath", "player_play"}
         ELSE /\ UNCHANGED <<playerSrcOk, playerRemain, unavail, playerPath>>
              /\ tickOps' = tickOps \cup {"player_play"}
    /\ playerActive' = TRUE
    /\ entered' = Enter(entered, "PlayingLibraryAsset")
    /\ tickSteps' = AddStep(tickSteps, "PlayingLibraryAsset")
    /\ pc' = "music_loop"
    /\ Fixed
    /\ UNCHANGED <<recordingDone, playRecDone, playMusicDone, samples_recorded,
                   bytes, fileLen, openFiles, playPos, shortReads, order,
                   tickAbort>>
    /\ UNCHANGED <<delivered, shortWrites, bufZero, fileKind, opLog>>

\* wav: while (player->copy()) {}; pcm: player->copyAll(); one chunk copied.
MusicCopy ==
    /\ pc = "music_loop"
    /\ PlayerHasData(playerActive, playerRemain)
    /\ playerRemain' = playerRemain - 1
    /\ tickOps' = tickOps \cup {"player_copy"}
    /\ Fixed
    /\ UNCHANGED <<pc, recordingDone, playRecDone, playMusicDone,
                   samples_recorded, bytes, fileLen, openFiles, playPos,
                   shortReads, playerPath, playerActive, playerSrcOk, entered,
                   order, tickSteps, tickAbort, unavail>>
    /\ UNCHANGED <<delivered, shortWrites, bufZero, fileKind, opLog>>

\* The copy loop ends (wav: playMusicDone = true;), the delay, loop() returns.
MusicDone ==
    /\ pc = "music_loop"
    /\ ~PlayerHasData(playerActive, playerRemain)
    /\ playMusicDone' = IF variant = "wav" THEN TRUE ELSE playMusicDone
    /\ order' = Complete(order, "PlayingLibraryAsset")
    /\ tickOps' = tickOps \cup {"player_copy"}
    /\ pc' = TickEnd
    /\ Fixed
    /\ UNCHANGED <<recordingDone, playRecDone, samples_recorded, bytes, fileLen,
                   openFiles, playPos, shortReads, playerPath, playerActive,
                   playerSrcOk, playerRemain, entered, tickSteps, tickAbort,
                   unavail>>
    /\ UNCHANGED <<delivered, shortWrites, bufZero, fileKind, opLog>>

----------------------------------------------------------------------------

Next ==
    \/ LoopEnter
    \/ RecSkip \/ RecOpenFail \/ RecOpenOk \/ RecRead \/ RecProcess \/ RecFinish
    \/ PlaySkip \/ PlayStartWav \/ PlayCopy \/ PlayDoneWav
    \/ PlayOpenFail \/ PlayOpenOk \/ PlayFileRead \/ PlayWrite \/ PlayDonePcm
    \/ MusicSkip \/ MusicStart \/ MusicCopy \/ MusicDone

Spec == Init /\ [][Next]_vars

\* loop() is called again and again and every statement of it runs to its end:
\* some step is always taken.  Nothing is assumed about what the devices return.
FairSpec == Spec /\ WF_vars(Next)

----------------------------------------------------------------------------
(* flushI2SWithSilentWAV() of the wav variant.  loop() does not call it; here
   it is called where the session changes its mode: between two ticks, between
   the recording block and the playback of the recording, and between that
   playback and the library asset. *)

\* Positions of loop() between two of its blocks.
FlushCallSites == {"idle", "play_check", "music_check"}

MemsetResult_untouched(z) == z

\* memset(WVA_RECORDBuf, 0, WVA_RECORD_BUFFER_LENGTH): the buffer is all zero.
MemsetResult(z) == TRUE

FlushMuteLevel_high == TRUE

\* digitalWrite(I2S_PA_EN, 0)
FlushMuteLevel == FALSE

FlushLoopCond_two(o) == o < FLUSH_BUFFERS + 1

\* for (int o = 0; o < 1; o++)
FlushLoopCond(o) == o < FLUSH_BUFFERS

\* Buffers written so far by the running flush: the file was empty at the open
\* and every pass of the loop adds one buffer.
FlushLoopIndex(len) == len \div WVA_RECORD_BUFFER_LENGTH

FlushFailOps == <<"memset", "sd_open_failed", "return">>

FlushOpenOps == <<"memset", "sd_open", "enc_begin", "enc_setOutput", "pa_off">>

FlushCloseOps_noClose == <<"enc_end">>

\* encoder.end(); WVA_RECORDFile.close();
FlushCloseOps == <<"enc_end", "file_close">>

FlushPlayOps == <<"player_setPath", "player_play">>

FlushSourcePath_asset == "music"

\* player->setPath(RECORD_FILE_PATH): the path the flush also opened as its sink
FlushSourcePath == "rec"

\* The handles left open by a sequence of sink operations.
HandlesAfter(files, h, ops) ==
    IF InLog(ops, "file_close") THEN files \ {h} ELSE files

\* memset; SD.open(RECORD_FILE_PATH, FILE_WRITE) fails: if (!WVA_RECORDFile) return;
FlushOpenFail ==
    /\ pc \in FlushCallSites
    /\ variant = "wav"
    /\ bufZero' = MemsetResult(bufZero)
    /\ opLog' = FlushFailOps
    /\ UNCHANGED <<variant, pc, recordingDone, playRecDone, playMusicDone,
                   samples_recorded, bytes, fileLen, openFiles, playPos,
                   shortReads, playerPath, playerActive, playerSrcOk,
                   playerRemain, bps, aligned, entered, order, tickSteps,
                   tickOps, tickAbort, unavail, delivered, shortWrites,
                   paEnabled, fileKind, scriptIn, readHist, flushRet>>

\* memset; SD.open succeeds (the file is created or truncated);
\* encoder.begin(info); encoder.setOutput(WVA_RECORDFile); digitalWrite(I2S_PA_EN, 0);
FlushOpenOk ==
    /\ pc \in FlushCallSites
    /\ variant = "wav"
    /\ bufZero' = MemsetResult(bufZero)
    /\ openFiles' = openFiles \cup {"flushFile"}
    /\ fileLen' = 0
    /\ fileKind' = "none"
    /\ paEnabled' = FlushMuteLevel
    /\ opLog' = FlushOpenOps
    /\ flushRet' = pc
    /\ pc' = "flush_write"
    /\ UNCHANGED <<variant, recordingDone, playRecDone, playMusicDone,
                   samples_recorded, bytes, playPos, shortReads, playerPath,
                   playerActive, playerSrcOk, playerRemain, bps, aligned,
                   entered, order, tickSteps, tickOps, tickAbort, unavail,
                   delivered, shortWrites, scriptIn, readHist>>

\* One pass of the for loop: encoder.write(WVA_RECORDBuf, WVA_RECORD_BUFFER_LENGTH);
FlushWrite ==
    /\ pc = "flush_write"
    /\ FlushLoopCond(FlushLoopIndex(fileLen))
    /\ fileLen' = fileLen + WVA_RECORD_BUFFER_LENGTH
    /\ fileKind' = IF bufZero /\ fileKind \in {"none", "silence"}
                     THEN "silence" ELSE "stale"
    /\ opLog' = Append(opLog, "enc_write")
    /\ UNCHANGED <<variant, pc, recordingDone, playRecDone, playMusicDone,
                   samples_recorded, bytes, openFiles, playPos, shortReads,
                   playerPath, playerActive, playerSrcOk, playerRemain, bps,
                   aligned, entered, order, tickSteps, tickOps, tickAbort,
                   unavail, delivered, shortWrites, paEnabled, bufZero,
                   scriptIn, readHist, flushRet>>

\* The for loop ends: encoder.end(); WVA_RECORDFile.close(); vTaskDelay(5 ms);
FlushClose ==
    /\ pc = "flush_write"
    /\ ~FlushLoopCond(FlushLoopIndex(fileLen))
    /\ openFiles' = HandlesAfter(openFiles, "flushFile", FlushCloseOps)
    /\ opLog' = opLog \o FlushCloseOps
    /\ pc' = "flush_play"
    /\ UNCHANGED <<variant, recordingDone, playRecDone, playMusicDone,
                   samples_recorded, bytes, fileLen, playPos, shortReads,
                   playerPath, playerActive, playerSrcOk, playerRemain, bps,
                   aligned, entered, order, tickSteps, tickOps, tickAbort,
                   unavail, delivered, shortWrites, paEnabled, bufZero,
                   fileKind, scriptIn, readHist, flushRet>>

\* player->setPath(RECORD_FILE_PATH); player->play();  The result of setPath
\* is not looked at: with the source missing the player holds no data.
FlushPlay ==
    /\ pc = "flush_play"
    /\ \E ok \in BOOLEAN :
         /\ playerSrcOk' = ok
         /\ playerRemain' \in (IF ok THEN 1..MaxChunks ELSE {0})
    /\ playerPath' = FlushSourcePath
    /\ playerActive' = TRUE
    /\ opLog' = opLog \o FlushPlayOps
    /\ pc' = "flush_copy"
    /\ UNCHANGED <<variant, recordingDone, playRecDone, playMusicDone,
                   samples_recorded, bytes, fileLen, openFiles, playPos,
                   shortReads, bps, aligned, entered, order, tickSteps,
                   tickOps, tickAbort, unavail, delivered, shortWrites,
                   paEnabled, bufZero, fileKind, scriptIn, readHist, flushRet>>

\* player->copyAll() with data left: one chunk goes to the transport.
FlushCopy ==
    /\ pc = "flush_copy"
    /\ PlayerHasData(playerActive, playerRemain)
    /\ playerRemain' = playerRemain - 1
    /\ opLog' = LogOp(opLog, "player_copy")
    /\ UNCHANGED <<variant, pc, recordingDone, playRecDone, playMusicDone,
                   samples_recorded, bytes, fileLen, openFiles, playPos,
                   shortReads, playerPath, playerActive, playerSrcOk, bps,
                   aligned, entered, order, tickSteps, tickOps, tickAbort,
                   unavail, delivered, shortWrites, paEnabled, bufZero,
                   fileKind, scriptIn, readHist, flushRet>>

\* copyAll() returns; vTaskDelay(5 ms); the function returns.
FlushReturn ==
    /\ pc = "flush_copy"
    /\ ~PlayerHasData(playerActive, playerRemain)
    /\ opLog' = Append(opLog, "return")
    /\ pc' = flushRet
    /\ flushRet' = "idle"
    /\ UNCHANGED <<variant, recordingDone, playRecDone, playMusicDone,
                   samples_recorded, bytes, fileLen, openFiles, playPos,
                   shortReads, playerPath, playerActive, playerSrcOk,
                   playerRemain, bps, aligned, entered, order, tickSteps,
                   tickOps, tickAbort, unavail, delivered, shortWrites,
                   paEnabled, bufZero, fileKind, scriptIn, readHist>>

FlushNext ==
    \/ FlushOpenFail \/ FlushOpenOk \/ FlushWrite \/ FlushClose
    \/ FlushPlay \/ FlushCopy \/ FlushReturn

\* The session with the flush called at tick boundaries.
FlushSpec == Init /\ [][Next \/ FlushNext]_vars

----------------------------------------------------------------------------
(* The aligner on its own: the alignment statement applied to every read
   length and sample width within the bounds. *)

AlignInit ==
    /\ variant = "pcm"
    /\ pc = "align_in"
    /\ bytes \in 0..MaxAlignLen
    /\ bps \in 1..MaxAlignBps
    /\ aligned = 0
    /\ recordingDone = FALSE /\ playRecDone = FALSE /\ playMusicDone = FALSE
    /\ samples_recorded = 0 /\ fileLen = 0 /\ openFiles = {}
    /\ playPos = 0 /\ shortReads = 0
    /\ playerPath = "music" /\ playerActive = FALSE
    /\ playerSrcOk = TRUE /\ playerRemain = 1
    /\ entered = [s \in Stages |-> 0]
    /\ order = <<>> /\ tickSteps = <<>> /\ tickOps = {}
    /\ tickAbort = "none" /\ unavail = {}
    /\ delivered = 0 /\ shortWrites = 0 /\ paEnabled = TRUE /\ bufZero = TRUE
    /\ fileKind = "none" /\ opLog = <<>> /\ scriptIn = <<>> /\ readHist = <<>>
    /\ flushRet = "idle"

\* size_t aligned = (bytes / BYTES_PER_SAMPLE) * BYTES_PER_SAMPLE;
AlignApply ==
    /\ pc = "align_in"
    /\ aligned' = align(bytes, bps)
    /\ pc' = "align_out"
    /\ UNCHANGED <<variant, recordingDone, playRecDone, playMusicDone,
                   samples_recorded, bytes, fileLen, openFiles, playPos,
                   shortReads, playerPath, playerActive, playerSrcOk,
                   playerRemain, bps, entered, order, tickSteps, tickOps,
                   tickAbort, unavail, delivered, shortWrites, paEnabled,
                   bufZero, fileKind, opLog, scriptIn, readHist, flushRet>>

AlignNext == AlignApply

AlignSpec == AlignInit /\ [][AlignNext]_vars

----------------------------------------------------------------------------
(* The capture loop on its own, fed with a given sequence of read lengths. *)

\* Read lengths the sequences are built from.
ScriptLens == {0, 3, 4, 5, 512}

ScriptInputs == UNION {[1..n -> ScriptLens] : n \in 0..MaxScriptLen}

\* The state at the start of the capture loop (after RecOpenOk in the first
\* tick), with the reads to come.
ScriptInit ==
    /\ variant \in Variants
    /\ pc = "rec_loop"
    /\ scriptIn \in ScriptInputs
    /\ readHist = <<>>
    /\ recordingDone = FALSE /\ playRecDone = FALSE /\ playMusicDone = FALSE
    /\ samples_recorded = 0 /\ bytes = 0 /\ fileLen = 0
    /\ openFiles = {"recFile"}
    /\ playPos = 0 /\ shortReads = 0
    /\ playerPath = "music" /\ playerActive = FALSE
    /\ playerSrcOk = TRUE /\ playerRemain = 1
    /\ bps = BYTES_PER_SAMPLE /\ aligned = 0
    /\ entered = [s \in Stages |-> IF s = "Recording" THEN 1 ELSE 0]
    /\ order = <<>> /\ tickSteps = <<"Recording">>
    /\ tickOps = PreOpenOps(variant) \cup (IF variant = "wav" THEN {"enc_begin"} ELSE {})
    /\ tickAbort = "none" /\ unavail = {}
    /\ delivered = 0 /\ shortWrites = 0 /\ paEnabled = TRUE /\ bufZero = TRUE
    /\ fileKind = "capture" /\ opLog = RecOpenOps(variant)
    /\ flushRet = "idle"

\* The next read returns the next length of the sequence.
ScriptRead ==
    /\ scriptIn # <<>>
    /\ RecReadOf(Head(scriptIn))
    /\ scriptIn' = Tail(scriptIn)
    /\ readHist' = Append(readHist, Head(scriptIn))

ScriptNext == ScriptRead \/ RecProcess

ScriptSpec == ScriptInit /\ [][ScriptNext]_vars

----------------------------------------------------------------------------
(* Vocabulary of the properties *)

InSeq(seq, x) == \E i \in 1..Len(seq) : seq[i] = x

StageIndex(s) == CHOOSE i \in 1..Len(StageSeq) : StageSeq[i] = s

\* All three stages have run to completion.  pcm keeps no flag for the library
\* asset, so its completion is read from the history.
AllDone ==
    /\ recordingDone
    /\ playRecDone
    /\ IF variant = "wav" THEN playMusicDone ELSE InSeq(order, "PlayingLibraryAsset")

Flags == <<recordingDone, playRecDone, playMusicDone>>

\* Sample capacity of one read buffer.
BufferSamples(v) == BufSize(v) \div BYTES_PER_SAMPLE

InCaptureLoop == pc \in {"rec_loop", "rec_got"}

----------------------------------------------------------------------------
(* C1: every stage is entered at most once, and when the session is done the
   three stages have completed in the order Recording, PlayingOwnRecording,
   PlayingLibraryAsset. *)
C1_StagesOnceInOrder ==
    /\ \A s \in Stages : entered[s] <= 1
    /\ AllDone => order = StageSeq

(* C2: a tick starts at most one of the three steps. *)
C2_OneStepPerTick == Len(tickSteps) <= 1

(* C2 as amended: within one tick every step is started at most once and the
   steps started follow the order record, play own recording, play library
   asset; one tick may run all three. *)
C2_StepsOncePerTickInOrder ==
    \A i, j \in 1..Len(tickSteps) :
        i < j => StageIndex(tickSteps[i]) < StageIndex(tickSteps[j])

C2_Witness == tickSteps = StageSeq /\ pc = "idle"

(* C3: once all three stages have completed, no later step performs a device
   operation and no completion flag changes. *)
C3_DoneIsTerminal ==
    [][AllDone => (tickOps' \subseteq tickOps /\ Flags' = Flags)]_vars

(* C4: a sink that cannot be opened ends the tick at once: only the open (and
   the player stop before it) happened, no stage was started, nothing was
   stored, recordingDone is still false; the next tick goes back to the open,
   and a capture loop always starts counting at 0. *)
C4_SinkOpenFailureAborts ==
    [][ /\ (tickAbort' = "sink") =>
              /\ pc' = "idle"
              /\ ~recordingDone'
              /\ tickOps' \subseteq {"player_end", "sd_open"}
              /\ tickSteps' = <<>>
              /\ fileLen' = fileLen
              /\ entered' = entered
        /\ (tickAbort = "sink") => (pc' = "rec_check" /\ ~recordingDone')
        /\ (pc = "rec_check" /\ ~recordingDone) => "sd_open" \in tickOps'
        /\ (pc = "rec_check" /\ pc' = "rec_loop") => samples_recorded' = 0
      ]_vars

C4_Witness == tickAbort = "sink" /\ pc = "idle" /\ ~recordingDone

(* C5: a playback completion flag is never set for a stage whose source could
   not be opened. *)
C5_NoFlagWithoutSource ==
    /\ playRecDone => "PlayingOwnRecording" \notin unavail
    /\ playMusicDone => "PlayingLibraryAsset" \notin unavail

(* C6: every iteration of the capture loop either forwards nothing (the read
   was shorter than one sample) or forwards a positive multiple of
   BYTES_PER_SAMPLE that does not exceed the length read. *)
C6_ForwardedWholeSamples ==
    [][ (pc = "rec_got") =>
          LET n == fileLen' - fileLen
          IN  \/ n = 0 /\ bytes < BYTES_PER_SAMPLE /\ tickOps' = tickOps
              \/ n > 0 /\ n % BYTES_PER_SAMPLE = 0 /\ n <= bytes
      ]_vars

C6_Witness == pc = "rec_got" /\ bytes = 7 /\ fileLen > 0 /\ fileLen % 8 = 4

(* C7: the capture loop exits with T <= samples_recorded < T + (buffer sample
   capacity); samples_recorded never decreases inside the loop; recordingDone
   is set only when samples_recorded >= T. *)
C7_CaptureOvershootBounded ==
    [][ /\ (~recordingDone /\ recordingDone') =>
              /\ samples_recorded >= Target(variant)
              /\ samples_recorded < Target(variant) + BufferSamples(variant)
        /\ (InCaptureLoop /\ InCaptureLoop') => samples_recorded' >= samples_recorded
      ]_vars

C7_Witness ==
    /\ pc = "rec_loop"
    /\ samples_recorded = Target(variant) + BufferSamples(variant) - 1

(* C8: whatever lengths the transport returns, a capture loop that has been
   entered finishes and recordingDone is set.  Checked under FairSpec. *)
C8_CaptureTerminates == (pc = "rec_loop") ~> recordingDone

\* Again and again the capture loop, while it runs, gets a read of at least one
\* whole sample.
WholeReadsRecur ==
    []<>(~InCaptureLoop \/ (pc = "rec_got" /\ bytes >= BYTES_PER_SAMPLE))

(* C8 as amended: if the transport keeps returning reads of at least one whole
   sample, a capture loop that has been entered finishes and recordingDone is
   set; a transport that returns only shorter reads keeps the loop polling. *)
C8_CaptureTerminatesOnWholeReads ==
    WholeReadsRecur => ((pc = "rec_loop") ~> recordingDone)

C8_Witness ==
    /\ pc = "play_check"
    /\ recordingDone
    /\ tickSteps = <<"Recording">>
    /\ fileLen >= BYTES_PER_SAMPLE * Target(variant)

(* C9: for every sample width B > 0 and read length L >= 0 the aligned length
   is floor(L / B) * B: a multiple of B with 0 <= L - aligned < B.  Checked
   under AlignSpec. *)
C9_AlignIsFloorMultiple ==
    (pc = "align_out") =>
        /\ \E q \in 0..bytes :
              /\ q * bps <= bytes
              /\ bytes < (q + 1) * bps
              /\ aligned = q * bps
        /\ aligned % bps = 0
        /\ 0 <= bytes - aligned
        /\ bytes - aligned < bps

C9_Witness == pc = "align_out" /\ bytes = 7 /\ bps = 3 /\ aligned = 6

(* C10: a playback loop is left only when its source is exhausted, and only
   then is the completion flag set: the player holds no more data (wav, and
   the library asset of both variants), every byte of the recording file has
   been read (pcm); no playback loop returns from loop() early. *)
C10_PlaybackConsumesSource ==
    [][ /\ (~playRecDone /\ playRecDone') =>
              /\ pc = "play_loop"
              /\ IF variant = "wav"
                   THEN playerPath = "rec" /\ playerRemain = 0
                   ELSE playPos = fileLen
        /\ (~playMusicDone /\ playMusicDone') =>
              (pc = "music_loop" /\ playerPath = "music" /\ playerRemain = 0)
        /\ (pc = "music_loop" /\ pc' # "music_loop") => playerRemain = 0
        /\ (pc \in {"play_loop", "play_got"} /\ pc' \notin {"play_loop", "play_got"}) =>
              (playRecDone' /\ ~playRecDone)
      ]_vars

C10_Witness ==
    /\ variant = "pcm"
    /\ pc = "music_check"
    /\ playRecDone
    /\ tickSteps = <<"Recording", "PlayingOwnRecording">>
    /\ shortReads = 1
    /\ fileLen > PCM_BUFFER_LENGTH
    /\ playPos = fileLen

(* C11: in the pcm playback of the own recording no sample data is lost:
   when the playback has completed, every byte of the recording has been
   accepted by the transport, whatever short writes and short file reads
   occurred. *)
C11_NoSampleLost ==
    (variant = "pcm" /\ playRecDone) => delivered = fileLen

\* The last operation of the log.
LastOp(log) == IF Len(log) = 0 THEN "none" ELSE log[Len(log)]

\* How often an operation occurs in the log.
RECURSIVE CountOp(_, _)
CountOp(log, op) ==
    IF Len(log) = 0 THEN 0
    ELSE (IF Head(log) = op THEN 1 ELSE 0) + CountOp(Tail(log), op)

IsPrefix(a, b) == Len(a) <= Len(b) /\ \A i \in 1..Len(a) : a[i] = b[i]

\* A flush that opened its file has just returned.
FlushReturned == pc = "idle" /\ LastOp(opLog) = "return" /\ InLog(opLog, "sd_open")

(* C12: at every tick boundary (also after an early return on an open
   failure) and at every return from flushI2SWithSilentWAV no file handle is
   open; a completion flag is set only with the handle of its step closed; the
   flush has closed its file before it plays it.  Checked under FlushSpec. *)
C12_HandlesScopedToStep ==
    /\ pc = "idle" => openFiles = {}
    /\ recordingDone => "recFile" \notin openFiles
    /\ playRecDone => "playFile" \notin openFiles
    /\ pc \in {"flush_play", "flush_copy"} => "flushFile" \notin openFiles

C12_Witness ==
    /\ FlushReturned
    /\ recordingDone /\ playRecDone /\ playMusicDone
    /\ openFiles = {}
    /\ fileLen = WVA_RECORD_BUFFER_LENGTH

\* The modes that hold a resource of theirs: the recording its sink, the
\* playback of the own recording its source file or the player on that file,
\* the library asset the player on the asset.
ModeActive(m) ==
    CASE m = "Recording" -> "recFile" \in openFiles
      [] m = "PlayingOwnRecording" ->
             "playFile" \in openFiles \/ (playerActive /\ playerPath = "rec")
      [] m = "PlayingLibraryAsset" -> playerActive /\ playerPath = "music"

ActiveModes == {m \in Stages : ModeActive(m)}

(* C13: while the capture loop runs the player is not active and the pcm write
   loop has no file open; while a playback loop runs the recording sink is not
   open; at most one of the three modes is active at any time.  Checked under
   FlushSpec, where the player may have been left active by a flush. *)
C13_TransportExclusive ==
    /\ InCaptureLoop => (~playerActive /\ "playFile" \notin openFiles)
    /\ pc \in {"play_loop", "play_got", "music_loop"} => "recFile" \notin openFiles
    /\ Cardinality(ActiveModes) <= 1

C13_Witness ==
    /\ variant = "wav"
    /\ pc = "rec_got"
    /\ bytes > 0
    /\ ~paEnabled
    /\ ActiveModes = {"Recording"}

(* C14: every flush that opens its file writes exactly one buffer of 512 zero
   bytes, that is 128 samples of 4 bytes or 8 ms at 16000 Hz, whatever state
   the session is in and whatever the shared capture buffer held before.
   Checked under FlushSpec. *)
C14_FlushBufferIsOneSilentBuffer ==
    pc \in {"flush_play", "flush_copy"} =>
        /\ fileLen = 512
        /\ fileKind = "silence"
        /\ CountOp(opLog, "enc_write") = 1
        /\ fileLen = 128 * BYTES_PER_SAMPLE
        /\ (fileLen \div BYTES_PER_SAMPLE) * 1000 = 8 * SAMPLE_RATE

C14_Witness ==
    /\ pc = "flush_play"
    /\ recordingDone
    /\ fileKind = "silence"
    /\ fileLen = 512

\* sampleRateHz * durationSeconds of the two variants, written out.
Threshold(v) == IF v = "wav" THEN 80000 ELSE 160000

(* C15: the threshold of the capture loop is sample rate times duration: 80000
   samples in the 5 s wav variant, 160000 in the 10 s pcm variant.  The macro
   is expanded in the loop guard (and in a progress message of pcm); the guard
   lets the loop go on below the threshold and ends it at or above it. *)
C15_ThresholdIsRateTimesDuration ==
    [][ /\ TOTAL_SAMPLES(variant) = Threshold(variant)
        /\ (pc = "rec_loop" /\ pc' = "rec_got") =>
              samples_recorded < Threshold(variant) \div RateScale
        /\ (pc = "rec_loop" /\ recordingDone') =>
              samples_recorded >= Threshold(variant) \div RateScale
      ]_vars

C15_Witness ==
    /\ variant = "pcm"
    /\ recordingDone
    /\ pc = "play_check"
    /\ fileLen = BYTES_PER_SAMPLE * (160000 \div RateScale)

(* C16: a read of fewer bytes than one sample (0..3) is dropped: nothing goes
   to the encoder or the sink, samples_recorded keeps its value, no other
   operation happens, and the very next step of the loop is another read. *)
C16_ShortReadDiscardedAndRetried ==
    [][ /\ (pc = "rec_got" /\ bytes < 4) =>
              /\ fileLen' = fileLen
              /\ samples_recorded' = samples_recorded
              /\ tickOps' = tickOps
              /\ opLog' = opLog
              /\ openFiles' = openFiles
              /\ recordingDone' = recordingDone
              /\ pc' = "rec_loop"
              /\ samples_recorded' < Target(variant)
        /\ (pc = "rec_loop" /\ samples_recorded < Target(variant)) =>
              /\ pc' = "rec_got"
              /\ tickOps' = tickOps \cup {"i2s_read"}
              /\ fileLen' = fileLen
      ]_vars

\* The wav capture buffer has received bytes, yet nothing was forwarded: a read
\* of 1..3 bytes was dropped and the loop is back at its guard.
C16_Witness ==
    /\ variant = "wav"
    /\ pc = "rec_loop"
    /\ ~bufZero
    /\ fileLen = 0
    /\ samples_recorded = 0
    /\ tickOps = {"player_end", "sd_open", "enc_begin", "i2s_read"}

\* Sum of floor(L / B) over the read lengths of a sequence.
RECURSIVE SumFloor(_, _)
SumFloor(seq, B) ==
    IF Len(seq) = 0 THEN 0 ELSE (Head(seq) \div B) + SumFloor(Tail(seq), B)

\* The reads whose iteration has run to its end.
ReadsProcessed ==
    IF pc = "rec_got" THEN SubSeq(readHist, 1, Len(readHist) - 1) ELSE readHist

(* C17: no remainder is carried from one read to the next: after the reads
   L_1..L_n samples_recorded is the sum of floor(L_i / 4) and the sink holds 4
   bytes for each of these samples; the reads 3, 4, 5, 512 give 130 samples.
   Checked under ScriptSpec. *)
C17_NoRemainderCarried ==
    /\ samples_recorded = SumFloor(ReadsProcessed, 4)
    /\ fileLen = 4 * SumFloor(ReadsProcessed, 4)
    /\ (readHist = <<3, 4, 5, 512>> /\ pc = "rec_loop") =>
          (samples_recorded = 130 /\ fileLen = 520)
    /\ (readHist = <<3, 4, 5>> /\ pc = "rec_loop") =>
          (samples_recorded = 2 /\ fileLen = 8)

C17_Witness ==
    /\ readHist = <<3, 4, 5, 512>>
    /\ pc = "rec_loop"
    /\ samples_recorded = 130

\* The order of the statements of a successful wav recording step.
RecordingOrder ==
    <<"sd_open", "enc_begin", "enc_setOutput", "enc_write", "enc_end",
      "file_close", "set_recordingDone">>

(* C18: in the wav variant the operations of a recording step come in the
   order open, encoder begin, bind, writes, encoder end, close, set
   recordingDone: the encoder is finalized once, after the last write and
   before the close, and once it is finalized or the file is closed nothing
   more is written. *)
C18_RecordingStepOrder ==
    /\ [](variant = "wav" =>
            /\ IsPrefix(opLog, RecordingOrder)
            /\ recordingDone <=> opLog = RecordingOrder
            /\ InCaptureLoop => (LastOp(opLog) \in {"enc_setOutput", "enc_write"}
                                  /\ "recFile" \in openFiles)
            /\ recordingDone => CountOp(opLog, "enc_end") = 1)
    /\ [][variant = "wav" /\ (InLog(opLog, "enc_end") \/ "recFile" \notin openFiles)
            => fileLen' = fileLen]_vars

C18_Witness ==
    /\ variant = "wav"
    /\ pc = "play_check"
    /\ recordingDone
    /\ opLog = RecordingOrder
    /\ fileLen > 0

InFlush == pc \in {"flush_write", "flush_play", "flush_copy"}

\* The order of the statements of a flush whose open succeeds.
FlushOrder ==
    <<"memset", "sd_open", "enc_begin", "enc_setOutput", "pa_off", "enc_write",
      "enc_end", "file_close", "player_setPath", "player_play", "player_copy",
      "return">>

\* The same when the player got no data to copy.
FlushOrderNoData ==
    <<"memset", "sd_open", "enc_begin", "enc_setOutput", "pa_off", "enc_write",
      "enc_end", "file_close", "player_setPath", "player_play", "return">>

(* C19: the flush keeps the order mute, write, finalize, close, play: the
   amplifier is off before anything is written, exactly one zero buffer goes
   through the encoder, the encoder is ended and the file closed before the
   player is started on it, and the function returns only when the player
   has copied all the data it holds.  Checked under FlushSpec. *)
C19_FlushOrder ==
    /\ [](InFlush =>
            /\ IsPrefix(opLog, FlushOrder)
            /\ fileLen > 0 => ~paEnabled
            /\ pc \in {"flush_play", "flush_copy"} =>
                  /\ CountOp(opLog, "enc_write") = 1
                  /\ fileKind = "silence"
                  /\ "flushFile" \notin openFiles
                  /\ InLog(opLog, "enc_end"))
    /\ [][ /\ (InFlush /\ playerRemain' # playerRemain) =>
                 (~paEnabled /\ "flushFile" \notin openFiles /\ fileKind = "silence")
           /\ (InFlush /\ ~InFlush') =>
                 /\ playerRemain' = 0
                 /\ playerPath' = "rec"
                 /\ opLog' \in {FlushOrder, FlushOrderNoData}
                 /\ playerSrcOk' => opLog' = FlushOrder
         ]_vars

C19_Witness ==
    /\ pc = "idle"
    /\ opLog = FlushOrder
    /\ playerPath = "rec" /\ playerSrcOk /\ playerRemain = 0
    /\ ~paEnabled
    /\ fileKind = "silence"

(* C20: the flush never switches the amplifier back on: it returns after a
   successful open with the enable pin low, and nothing raises the pin
   afterwards, so every later playback runs with the amplifier off; when the
   open fails the function returns with the pin, the file and the player as
   they were and has written and played nothing.  Checked under FlushSpec. *)
C20_FlushLeavesAmplifierOff ==
    [][ /\ InFlush => ~paEnabled'
        /\ ~paEnabled => ~paEnabled'
        /\ (pc \in FlushCallSites /\ pc' = pc) =>
              /\ paEnabled' = paEnabled
              /\ fileLen' = fileLen /\ fileKind' = fileKind
              /\ openFiles' = openFiles
              /\ playerPath' = playerPath /\ playerActive' = playerActive
              /\ playerSrcOk' = playerSrcOk /\ playerRemain' = playerRemain
              /\ ~InLog(opLog', "enc_write") /\ ~InLog(opLog', "player_play")
      ]_vars

C20_Witness ==
    /\ variant = "wav"
    /\ pc = "play_loop"
    /\ playerActive /\ playerPath = "rec" /\ playerRemain > 0
    /\ fileKind = "capture"
    /\ ~paEnabled

(* C21: the flush writes to and plays from the path of the recording: when a
   flush that opened its file returns, the file at that path is the silence
   buffer of 128 samples and the player is set to that path; the open of the
   flush discards a recording stored there, and a playback of the own
   recording that follows such a flush plays the silence buffer instead.
   Checked under FlushSpec. *)
C21_FlushReplacesRecording ==
    [][ /\ (InFlush /\ ~InFlush') =>
              /\ fileKind' = "silence"
              /\ fileLen' = 128 * BYTES_PER_SAMPLE
              /\ playerPath' = "rec"
        /\ (~InFlush /\ InFlush' /\ fileKind = "capture") =>
              (fileKind' # "capture" /\ fileLen' = 0)
        /\ (pc = "play_check" /\ pc' = "play_loop" /\ variant = "wav"
              /\ LastOp(opLog) = "return" /\ InLog(opLog, "sd_open")) =>
              (fileKind = "silence" /\ fileLen = 128 * BYTES_PER_SAMPLE)
      ]_vars

C21_Witness ==
    /\ variant = "wav"
    /\ pc = "play_loop"
    /\ tickSteps = <<"Recording", "PlayingOwnRecording">>
    /\ ~playRecDone
    /\ playerPath = "rec"
    /\ fileKind = "silence"
    /\ fileLen = 512

\* From some tick on the open of the sink does not fail any more.
SinkOpens == <>[](tickAbort # "sink")

\* From some tick on the open of the recording for playback does not fail any
\* more.
SourceOpens == <>[](tickAbort # "source")

\* As long as nothing has been recorded no later stage has started and no
\* completion flag is set.
StalledBeforeRecording ==
    ~recordingDone =>
        /\ ~playRecDone /\ ~playMusicDone
        /\ entered["PlayingOwnRecording"] = 0
        /\ entered["PlayingLibraryAsset"] = 0
        /\ order = <<>>

(* C22: if the opens of the sink and of the source eventually succeed and the
   transport keeps returning reads of at least one whole sample (every
   playback source being finite), all three stages complete and the
   completion flags stay set for ever; while the open of the sink keeps
   failing the session only stalls: a failed open changes no flag, no later
   stage starts and recordingDone is never set.  Checked under FairSpec. *)
C22_SessionCompletesOrStalls ==
    /\ (SinkOpens /\ SourceOpens /\ WholeReadsRecur) => <>[]AllDone
    /\ []StalledBeforeRecording
    /\ [][tickAbort' = "sink" => (Flags' = Flags /\ entered' = entered)]_vars
    /\ []<>(tickAbort = "sink") => []~recordingDone

\* The session is complete and a later tick has left it complete.
C22_Witness ==
    /\ pc = "idle"
    /\ AllDone
    /\ entered["Recording"] = 1
    /\ order = StageSeq
    /\ InSeq(tickSteps, "PlayingLibraryAsset")
    /\ ~InSeq(tickSteps, "Recording")

====
